---- MODULE Spec2Model ----
(***************************************************************************)
(* Paris Dental content API (src/main.py, src/schemas.py).                 *)
(*                                                                         *)
(* State: the document database (one sequence of documents per            *)
(* collection, in insertion order), the position of every service process  *)
(* in startup_event/ensure_seed_data, and the request/response of the      *)
(* handler step taken last.  Spec is the seeding life cycle of the         *)
(* processes in Procs (overlapping runs, database errors, restarts);       *)
(* SpecApi is one process that seeds and then serves requests.             *)
(***************************************************************************)
EXTENDS Integers, Sequences, FiniteSets, TLC

VARIABLES
    db,         \* collection name -> sequence of stored documents
    pc,         \* per process: position in startup_event / ensure_seed_data
    connected,  \* per process: the module-level db handle is not None
    run,        \* per process: what its current seed run found and inserted
    hist,       \* what has happened so far (starts, overlap, aborts, ...)
    last        \* the operation taken last, with its input and response

vars == <<db, pc, connected, run, hist, last>>

(* ------------------------------ bounds -------------------------------- *)

Procs == {"p1", "p2"}
ApiProcs == {"p1"}
MaxStarts == 2
MaxAppointments == 1

(* ------------------------------ values -------------------------------- *)

\* Python None / JSON null is <<>>, a present value x is <<x>>.
None == <<>>
Some(x) == <<x>>
IsNone(v) == Len(v) = 0

SEED_RUN_FLAG == "__seed_paris_dental__"

ContentCollections == {"testimonial", "service", "post"}
Collections == {"meta", "appointmentrequest"} \cup ContentCollections

(* ------------------------------ schemas ------------------------------- *)

Testimonial(name, quote, rating, featured) ==
    [name |-> name, quote |-> quote, rating |-> rating,
     photo_url |-> None, featured |-> featured]

Service(name, category, icon, slug) ==
    [name |-> name, category |-> category, icon |-> Some(icon),
     slug |-> Some(slug)]

Post(title, slug, author, tags, status) ==
    [title |-> title, slug |-> slug, excerpt |-> None,
     author |-> Some(author), tags |-> tags, status |-> status]

(* ------------------------- database operations ------------------------ *)

WithId(doc, id) == doc @@ ("_id" :> id)

\* The identifier the driver generates for the next document of collection
\* c: fresh in c (documents are never removed, so the length only grows).
NewId(d, c) == Len(d[c]) + 1

\* pymongo insert_one: the document is appended with a generated _id.
InsertOne(d, c, doc) == [d EXCEPT ![c] = Append(@, WithId(doc, NewId(d, c)))]

\* database.create_document(collection_name, data): insert the model's fields.
CreateDocument(d, c, data) == InsertOne(d, c, data)

\* pymongo count_documents({}).
CountDocuments(d, c) == Len(d[c])

\* A filter is "all", equality on one field, or membership of a list field.
NoFilter == [kind |-> "all"]
EqFilter(f, v) == [kind |-> "eq", field |-> f, value |-> v]
InFilter(f, vs) == [kind |-> "in", field |-> f, values |-> vs]

Matches(doc, filt) ==
    CASE filt.kind = "all" -> TRUE
      [] filt.kind = "eq" ->
            filt.field \in DOMAIN doc /\ doc[filt.field] = filt.value
      [] filt.kind = "in" ->
            /\ filt.field \in DOMAIN doc
            /\ \E i \in 1..Len(doc[filt.field]) :
                  \E j \in 1..Len(filt.values) :
                      doc[filt.field][i] = filt.values[j]

\* database.get_documents(collection_name, filter_dict): list(find(filter)).
GetDocuments(d, c, filt) == SelectSeq(d[c], LAMBDA doc : Matches(doc, filt))

\* str(ObjectId): the hexadecimal digits of the identifier.
HexDigit(n) == <<"0","1","2","3","4","5","6","7","8","9","a","b","c","d","e","f">>[n + 1]
RECURSIVE OidStr(_)
OidStr(n) == IF n < 16 THEN <<HexDigit(n)>>
             ELSE Append(OidStr(n \div 16), HexDigit(n % 16))

(* ------------------------------ seed data ----------------------------- *)

TestimonialSamples ==
    << Testimonial("A.M.", "Best Temecula dentist experience I've ever had.", 5, TRUE),
       Testimonial("J.S.", "Beautiful office, gentle care, and amazing results!", 5, TRUE),
       Testimonial("K.R.", "They made me feel at ease from the moment I walked in.", 5, FALSE) >>

ServiceSamples ==
    << Service("General Dentistry", "General", "Tooth", "general-dentistry"),
       Service("Cosmetic Dentistry", "Cosmetic", "Sparkles", "cosmetic-dentistry"),
       Service("Dental Implants", "Restorative", "Pillar", "dental-implants"),
       Service("Periodontal Care", "Periodontal", "HeartPulse", "periodontal-care"),
       Service("Dental Technology", "Technology", "Cpu", "dental-technology") >>

PostSamples ==
    << Post("Welcome to Paris Dental - Modern Dental Care in Temecula", "welcome-paris-dental", "Paris Dental",
            <<"Temecula dentist", "cosmetic dentistry">>, "published") >>

Samples(c) ==
    CASE c = "testimonial" -> TestimonialSamples
      [] c = "service" -> ServiceSamples
      [] c = "post" -> PostSamples

SeedSize(c) == Len(Samples(c))

SentinelDoc == [key |-> SEED_RUN_FLAG]

(* --------------------------- ensure_seed_data -------------------------- *)

Pos(at, c, i) == [at |-> at, c |-> c, i |-> i]
Down == Pos("down", "", 0)
Returned == Pos("done", "", 0)
Aborted == Pos("aborted", "", 0)

\* Startup is over (the seed run returned or its exception was swallowed):
\* the process serves requests.
Serving(p) == pc[p].at \in {"done", "aborted"}
Active(p) == pc[p].at \in {"find", "count", "insert", "sentinel"}

\* db.meta.find_one({"key": SEED_RUN_FLAG}) is truthy.
SentinelPresentWrongKey(d) == \E i \in 1..Len(d["meta"]) : d["meta"][i].key = "seed"
SentinelPresent(d) == \E i \in 1..Len(d["meta"]) : d["meta"][i].key = SEED_RUN_FLAG

\* db.<c>.count_documents({}) == 0
NeedsSeedAlways(d, c) == TRUE
NeedsSeedIncomplete(d, c) == CountDocuments(d, c) < SeedSize(c)
NeedsSeed(d, c) == CountDocuments(d, c) = 0

\* The statement after the seeding block of collection c.
AfterBlock(c) ==
    CASE c = "testimonial" -> Pos("count", "service", 0)
      [] c = "service" -> Pos("count", "post", 0)
      [] c = "post" -> Pos("sentinel", "", 0)

\* Where control goes when the block of c is skipped (c is not empty).
AfterSkipSentinelInBlock(c) == IF c = "post" THEN Returned ELSE AfterBlock(c)
AfterSkip(c) == AfterBlock(c)

\* db.meta.insert_one({"key": SEED_RUN_FLAG, "created_at": ...})
MarkSeeded(d) == InsertOne(d, "meta", SentinelDoc)

Counts(d) == [c \in ContentCollections |-> Len(d[c])]
NoInserts == [c \in ContentCollections |-> 0]
NoRun == [sentinel0 |-> FALSE, start |-> NoInserts, ins |-> NoInserts, wrote |-> FALSE]
NewRun(d) == [sentinel0 |-> SentinelPresent(d), start |-> Counts(d),
              ins |-> NoInserts, wrote |-> FALSE]

SeedStep == [op |-> "seed"]

\* Seed runs that returned normally on a connected database: 0, 1, 2 or more.
Completed(n) == IF n < 2 THEN n + 1 ELSE n

\* Process start: the db handle is set (or left None) at import, then
\* startup_event calls ensure_seed_data, which returns at once without a handle.
Startup(p) ==
    /\ pc[p].at = "down"
    /\ hist.starts < MaxStarts
    /\ \E h \in BOOLEAN :
        /\ connected' = [connected EXCEPT ![p] = h]
        /\ pc' = [pc EXCEPT ![p] = IF h THEN Pos("find", "", 0) ELSE Returned]
    /\ run' = [run EXCEPT ![p] = NewRun(db)]
    /\ hist' = [hist EXCEPT !.starts = @ + 1,
                            !.overlap = @ \/ \E q \in Procs \ {p} : Active(q)]
    /\ last' = SeedStep
    /\ UNCHANGED db

\* Line 31-32: return when the sentinel is found.
FindSentinel(p) ==
    /\ pc[p].at = "find"
    /\ pc' = [pc EXCEPT ![p] = IF SentinelPresent(db) THEN Returned
                               ELSE Pos("count", "testimonial", 0)]
    /\ hist' = [hist EXCEPT !.completed = IF SentinelPresent(db) THEN Completed(@) ELSE @]
    /\ last' = SeedStep
    /\ UNCHANGED <<db, connected, run>>

\* Lines 35, 45, 57: seed the collection only when it is empty.
CountCollection(p) ==
    /\ pc[p].at = "count"
    /\ pc' = [pc EXCEPT ![p] = IF NeedsSeed(db, pc[p].c) THEN Pos("insert", pc[p].c, 1)
                               ELSE AfterSkip(pc[p].c)]
    /\ hist' = [hist EXCEPT !.completed = IF pc'[p].at = "done" THEN Completed(@) ELSE @]
    /\ last' = SeedStep
    /\ UNCHANGED <<db, connected, run>>

\* Lines 41-42, 53-54, 68: one create_document of the loop over the samples.
InsertSample(p) ==
    /\ pc[p].at = "insert"
    /\ db' = CreateDocument(db, pc[p].c, Samples(pc[p].c)[pc[p].i])
    /\ pc' = [pc EXCEPT ![p] = IF pc[p].i = SeedSize(pc[p].c) THEN AfterBlock(pc[p].c)
                               ELSE Pos("insert", pc[p].c, pc[p].i + 1)]
    /\ run' = [run EXCEPT ![p].ins[pc[p].c] = @ + 1]
    /\ last' = SeedStep
    /\ UNCHANGED <<connected, hist>>

\* Line 70: the sentinel is inserted and the routine returns.
InsertSentinel(p) ==
    /\ pc[p].at = "sentinel"
    /\ db' = MarkSeeded(db)
    /\ pc' = [pc EXCEPT ![p] = Returned]
    /\ run' = [run EXCEPT ![p].wrote = TRUE]
    /\ hist' = [hist EXCEPT !.completed = Completed(@)]
    /\ last' = SeedStep
    /\ UNCHANGED <<connected>>

\* Any database call of the routine raises; startup_event (lines 75-79)
\* swallows the exception.  A collection left holding some but not all of its
\* samples, and nothing else, while no other run is under way is recorded in
\* hist.partial.
DbError(p) ==
    /\ Active(p)
    /\ pc' = [pc EXCEPT ![p] = Aborted]
    /\ hist' = [hist EXCEPT
                  !.aborted = TRUE,
                  !.partial = IF /\ pc[p].at = "insert"
                                 /\ pc[p].i > 1
                                 /\ Len(db[pc[p].c]) = pc[p].i - 1
                                 /\ \A q \in Procs \ {p} : ~Active(q)
                              THEN [@ EXCEPT ![pc[p].c] = Len(db[pc[p].c])]
                              ELSE @]
    /\ last' = SeedStep
    /\ UNCHANGED <<db, connected, run>>

\* The process ends; a later process start runs startup_event again.
ProcessExit(p) ==
    /\ Serving(p)
    /\ pc' = [pc EXCEPT ![p] = Down]
    /\ connected' = [connected EXCEPT ![p] = FALSE]
    /\ run' = [run EXCEPT ![p] = NoRun]
    /\ last' = SeedStep
    /\ UNCHANGED <<db, hist>>

(* ------------------------- AppointmentRequest -------------------------- *)

\* A request body is a function from the submitted keys to JSON values.
AppointmentFields ==
    {"full_name", "email", "phone", "preferred_date", "preferred_time",
     "service_type", "message", "source"}

\* Fields declared with Field(...): a value is required and must be a string.
RequiredFieldsNameOnly == {"full_name"}
RequiredFields == {"full_name", "phone"}

\* Field defaults: source = "website", every other optional field None.
FieldDefaultNone(f) == None
FieldDefault(f) == IF f = "source" THEN Some("website") ELSE None

\* Strings that are looked into (e-mail addresses) are sequences of characters.
LowerChar(ch) == CASE ch = "A" -> "a" [] ch = "B" -> "b" [] ch = "C" -> "c" [] OTHER -> ch
Lower(str) == [k \in 1..Len(str) |-> LowerChar(str[k])]

RECURSIVE Strip(_)
Strip(str) ==
    IF Len(str) = 0 THEN str
    ELSE IF Head(str) = " " THEN Strip(Tail(str))
    ELSE IF str[Len(str)] = " " THEN Strip(SubSeq(str, 1, Len(str) - 1))
    ELSE str

AtSigns(str) == {k \in 1..Len(str) : str[k] = "@"}
LocalPart(str) == SubSeq(str, 1, (CHOOSE k \in AtSigns(str) : TRUE) - 1)
DomainPart(str) == SubSeq(str, (CHOOSE k \in AtSigns(str) : TRUE) + 1, Len(str))

\* EmailStr validation: surrounding blanks are stripped; the rest needs one
\* "@", a non-empty local part and a dotted domain, with no blank inside.
IsEmail(str) ==
    LET t == Strip(str) IN
    /\ Cardinality(AtSigns(t)) = 1
    /\ \A k \in 1..Len(t) : t[k] # " "
    /\ Len(LocalPart(t)) > 0
    /\ LET dom == DomainPart(t) IN
         /\ Len(dom) >= 3
         /\ dom[1] # "." /\ dom[Len(dom)] # "."
         /\ \E k \in 1..Len(dom) : dom[k] = "."

\* The value EmailStr validation yields: the normalized address (stripped,
\* the domain in lower case, the local part as given).
NormalizeEmail(str) ==
    LET t == Strip(str) IN LocalPart(t) \o <<"@">> \o Lower(DomainPart(t))

\* Request validation against AppointmentRequest (done before the handler runs).
SchemaValid(body) ==
    /\ DOMAIN body \subseteq AppointmentFields
    /\ \A f \in RequiredFields : f \in DOMAIN body /\ ~IsNone(body[f])
    /\ ("email" \in DOMAIN body /\ ~IsNone(body["email"])) => IsEmail(body["email"][1])

\* The validated model's fields (model_dump): defaults for omitted fields,
\* the validated e-mail, every other value as submitted.
ParseAppointment(body) ==
    [f \in AppointmentFields |->
        IF f \notin DOMAIN body THEN FieldDefault(f)
        ELSE IF f = "email" /\ ~IsNone(body[f]) THEN Some(NormalizeEmail(body[f][1]))
        ELSE body[f]]

(* ----------------------------- request inputs -------------------------- *)

PlainEmail == <<"a", "@", "b", ".", "c">>
UpperDomainEmail == <<"a", "@", "B", ".", "c">>
PaddedEmail == <<" ", "a", "@", "b", ".", "c">>
NotAnEmail == <<"n", "o", "t", "-", "a", "n", "-", "e", "m", "a", "i", "l">>

BaseBody == ("full_name" :> Some("Ann Lee")) @@ ("phone" :> Some("555-0100"))

Bodies ==
    { BaseBody,
      BaseBody @@ ("email" :> Some(PlainEmail)),
      BaseBody @@ ("email" :> Some(UpperDomainEmail)),
      BaseBody @@ ("email" :> Some(NotAnEmail)),
      BaseBody @@ ("email" :> None) @@ ("source" :> None),
      BaseBody @@ ("email" :> Some(PaddedEmail)) @@ ("preferred_date" :> Some("Monday"))
               @@ ("preferred_time" :> Some("9am")) @@ ("service_type" :> Some("Cosmetic"))
               @@ ("message" :> Some("First visit")) @@ ("source" :> Some("campaign")),
      ("full_name" :> Some("Ann Lee")),
      ("phone" :> Some("555-0100")) @@ ("email" :> Some(PlainEmail)),
      ("full_name" :> Some("Ann Lee")) @@ ("phone" :> None) }

FeaturedParams == {None, Some(TRUE), Some(FALSE)}
CategoryParams == {None, Some("Cosmetic"), Some("Orthodontics"), Some("")}
TagParams == {None, Some("cosmetic dentistry"), Some("implants"), Some("")}

(* ------------------------------- handlers ------------------------------ *)

\* Python truthiness of an Optional[str]: neither None nor "".
TruthyStr(v) == ~IsNone(v) /\ v[1] # ""

\* d.pop("_id", None)
StripId(doc) == [k \in DOMAIN doc \ {"_id"} |-> doc[k]]
StripIds(docs) == [k \in 1..Len(docs) |-> StripId(docs[k])]

\* Lines 147-149.
TestimonialFilterTruthy(featured) ==
    IF ~IsNone(featured) /\ featured[1] THEN EqFilter("featured", featured[1]) ELSE NoFilter
TestimonialFilter(featured) ==
    IF ~IsNone(featured) THEN EqFilter("featured", featured[1]) ELSE NoFilter

\* Line 160.
ServiceFilter(category) ==
    IF TruthyStr(category) THEN EqFilter("category", category[1]) ELSE NoFilter

\* Line 171.
PostFilter(tag) ==
    IF TruthyStr(tag) THEN InFilter("tags", <<tag[1]>>) ELSE NoFilter

\* A database call of a handler succeeds only through a db handle.
DbCallOk(p, ok) == connected[p] /\ ok

Handled(p) ==
    /\ Serving(p)
    /\ UNCHANGED <<pc, connected, run, hist>>

\* GET /
ReadRoot(p) ==
    /\ Handled(p)
    /\ last' = [op |-> "read_root", status |-> 200,
                body |-> [message |-> "Paris Dental API running", status |-> "ok"]]
    /\ UNCHANGED db

\* GET /api/hello
Hello(p) ==
    /\ Handled(p)
    /\ last' = [op |-> "hello", status |-> 200,
                body |-> [message |-> "Hello from Paris Dental backend!"]]
    /\ UNCHANGED db

\* db.list_collection_names(): the collections that hold documents.
ListCollectionNames(d) == {c \in Collections : Len(d[c]) > 0}

\* os.getenv("DATABASE_NAME")
EnvNames == {None, Some("clinic")}

\* GET /test: every failure ends up in the body of a 200 response.
TestDatabase(p) ==
    /\ Handled(p)
    /\ \E ok \in BOOLEAN, url \in BOOLEAN, name \in EnvNames :
        last' = [op |-> "test_database", status |-> 200,
                 body |->
                   IF connected[p]
                   THEN [backend |-> "Running",
                         database |-> IF ok THEN "Connected & Working"
                                      ELSE "Connected but Error",
                         database_url |-> IF url THEN "Set" ELSE "Not Set",
                         database_name |-> IF IsNone(name) THEN "Not Set" ELSE name[1],
                         connection_status |-> "Connected",
                         collections |-> IF ok THEN ListCollectionNames(db) ELSE {}]
                   ELSE [backend |-> "Running",
                         database |-> "Available but not initialized",
                         database_url |-> "Not Set",
                         database_name |-> "Not Set",
                         connection_status |-> "Not Connected",
                         collections |-> {}]]
    /\ UNCHANGED db

\* POST /api/appointment.  An invalid body is answered 422 by the framework
\* and the handler body never runs; a raised create_document becomes a 500.
CreateAppointment(p) ==
    /\ Handled(p)
    /\ \E body \in Bodies, ok \in BOOLEAN :
        IF ~SchemaValid(body)
        THEN /\ last' = [op |-> "create_appointment", req |-> body, status |-> 422]
             /\ UNCHANGED db
        ELSE IF DbCallOk(p, ok)
        THEN /\ Len(db["appointmentrequest"]) < MaxAppointments
             /\ db' = CreateDocument(db, "appointmentrequest", ParseAppointment(body))
             /\ last' = [op |-> "create_appointment", req |-> body, status |-> 200,
                         body |-> [id |-> OidStr(NewId(db, "appointmentrequest")),
                                   success |-> TRUE]]
        ELSE /\ last' = [op |-> "create_appointment", req |-> body, status |-> 500]
             /\ UNCHANGED db

\* The common shape of the three listing handlers.
Listing(p, op, c, param, filt) ==
    /\ Handled(p)
    /\ \E ok \in BOOLEAN :
        last' = IF DbCallOk(p, ok)
                THEN [op |-> op, req |-> param, status |-> 200,
                      body |-> StripIds(GetDocuments(db, c, filt))]
                ELSE [op |-> op, req |-> param, status |-> 500]
    /\ UNCHANGED db

\* GET /api/testimonials
GetTestimonialsAndSeed(p) ==
    /\ Handled(p)
    /\ \E featured \in FeaturedParams :
        /\ last' = [op |-> "get_testimonials", req |-> featured, status |-> 200,
                    body |-> StripIds(GetDocuments(db, "testimonial", TestimonialFilter(featured)))]
        /\ db' = IF Len(db["testimonial"]) = 0
                 THEN CreateDocument(db, "testimonial", TestimonialSamples[1]) ELSE db
GetTestimonials(p) ==
    \E featured \in FeaturedParams :
        Listing(p, "get_testimonials", "testimonial", featured, TestimonialFilter(featured))

\* GET /api/services
GetServices(p) ==
    \E category \in CategoryParams :
        Listing(p, "get_services", "service", category, ServiceFilter(category))

\* GET /api/posts
GetPosts(p) ==
    \E tag \in TagParams :
        Listing(p, "get_posts", "post", tag, PostFilter(tag))

\* GET /schema (the models' JSON schemas are static and left out).
GetSchema(p) ==
    /\ Handled(p)
    /\ last' = [op |-> "get_schema", status |-> 200,
                body |-> [collections |-> <<"appointmentrequest", "testimonial", "post", "service">>]]
    /\ UNCHANGED db

(* ------------------------------ initial state -------------------------- *)

OldTestimonial == WithId(Testimonial("Old", "Kind staff.", 4, FALSE), 0)
OldService == WithId(Service("Whitening", "Cosmetic", "Sun", "whitening"), 0)
OldPost == WithId(Post("News", "news", "Paris Dental", <<"news">>, "draft"), 0)

Init ==
    /\ \E t \in {<<>>, <<OldTestimonial>>}, s \in {<<>>, <<OldService>>},
          o \in {<<>>, <<OldPost>>},
          m \in {<<>>, <<WithId(SentinelDoc, 0)>>} :
          db = [c \in Collections |->
                  CASE c = "testimonial" -> t
                    [] c = "service" -> s
                    [] c = "post" -> o
                    [] c = "meta" -> m
                    [] OTHER -> <<>>]
    /\ pc = [p \in Procs |-> Down]
    /\ connected = [p \in Procs |-> FALSE]
    /\ run = [p \in Procs |-> NoRun]
    /\ hist = [starts |-> 0, overlap |-> FALSE, aborted |-> FALSE, completed |-> 0,
               empty0 |-> \A c \in Collections : Len(db[c]) = 0,
               partial |-> NoInserts]
    /\ last = SeedStep

(* ----------------------------- specifications -------------------------- *)

Next ==
    \E p \in Procs :
        \/ Startup(p)
        \/ FindSentinel(p)
        \/ CountCollection(p)
        \/ InsertSample(p)
        \/ InsertSentinel(p)
        \/ DbError(p)
        \/ ProcessExit(p)

Spec == Init /\ [][Next]_vars

\* One service instance from its start on: its startup (which a database
\* error may cut short) and the requests it then serves.
NextApi ==
    \E p \in ApiProcs :
        \/ Startup(p)
        \/ FindSentinel(p)
        \/ CountCollection(p)
        \/ InsertSample(p)
        \/ InsertSentinel(p)
        \/ DbError(p)
        \/ ReadRoot(p)
        \/ Hello(p)
        \/ TestDatabase(p)
        \/ CreateAppointment(p)
        \/ GetTestimonials(p)
        \/ GetServices(p)
        \/ GetPosts(p)
        \/ GetSchema(p)

SpecApi == Init /\ [][NextApi]_vars

(* ------------------------------ properties ----------------------------- *)

SentinelCount(d) == Cardinality({k \in 1..Len(d["meta"]) : d["meta"][k].key = SEED_RUN_FLAG})
ExactlySeeded(d) == \A c \in ContentCollections : Len(d[c]) = SeedSize(c)
NoDuplicateSeeds(d) == \A c \in ContentCollections : Len(d[c]) <= SeedSize(c)
IsPrefix(a, b) == Len(a) <= Len(b) /\ SubSeq(b, 1, Len(a)) = a

\* Runs one after the other on an initially empty database, none aborted.
SequentialRunsOnEmpty == hist.empty0 /\ ~hist.overlap /\ ~hist.aborted

\* C1: after one seed run, and still after a second one run in sequence on
\* the same initially empty database, the database holds 3 testimonials,
\* 5 services, 1 post and 1 sentinel record.
C1_SeedTwiceSameAsOnce ==
    (SequentialRunsOnEmpty /\ hist.completed >= 1) =>
        /\ Len(db["testimonial"]) = 3
        /\ Len(db["service"]) = 5
        /\ Len(db["post"]) = 1
        /\ SentinelCount(db) = 1

\* Two runs have returned normally, one after the other, on the empty database.
C1_Witness ==
    /\ SequentialRunsOnEmpty
    /\ hist.completed = 2
    /\ \A p \in Procs : ~Active(p)

\* C2: for every interleaving of seed runs on an initially empty database
\* (no database error), no content collection ever holds more than one copy
\* of its seed set, and once a run has returned each holds exactly one copy.
C2_SeededExactlyOnce ==
    (hist.empty0 /\ ~hist.aborted) =>
        /\ NoDuplicateSeeds(db)
        /\ (hist.completed >= 1 /\ \A p \in Procs : ~Active(p)) => ExactlySeeded(db)

\* C3: a run never inserts into a content collection that held a record when
\* the run started; a run that starts without a sentinel, overlaps no other
\* run and returns has inserted the full seed set into every collection that
\* was empty when it started.
C3_SeedsPerCollection ==
    \A p \in Procs : \A c \in ContentCollections :
        /\ run[p].start[c] > 0 => run[p].ins[c] = 0
        /\ ( /\ pc[p].at = "done" /\ connected[p]
             /\ ~run[p].sentinel0 /\ ~hist.overlap
             /\ run[p].start[c] = 0 ) => run[p].ins[c] = SeedSize(c)

\* A run that found testimonials but no services and no posts has returned.
C3_Witness ==
    \E p \in Procs :
        /\ pc[p].at = "done" /\ connected[p] /\ ~run[p].sentinel0 /\ ~hist.overlap
        /\ run[p].start["testimonial"] > 0 /\ run[p].ins["testimonial"] = 0
        /\ run[p].start["service"] = 0 /\ run[p].ins["service"] = 5
        /\ run[p].start["post"] = 0 /\ run[p].ins["post"] = 1

\* C4: once the seed routine has returned at the startup of a process with a
\* database handle, the sentinel record is in the meta collection, also when
\* no content collection needed seeding.
C4_SentinelAfterSeeding ==
    \A p \in Procs :
        (pc[p].at = "done" /\ connected[p]) =>
            \E k \in 1..Len(db["meta"]) : db["meta"][k].key = SEED_RUN_FLAG

\* A run that found all three content collections non-empty and no sentinel
\* has returned, having inserted no content and the sentinel.
C4_Witness ==
    \E p \in Procs :
        /\ pc[p].at = "done" /\ connected[p] /\ ~run[p].sentinel0
        /\ \A c \in ContentCollections : run[p].start[c] > 0 /\ run[p].ins[c] = 0
        /\ run[p].wrote
        /\ SentinelCount(db) = 1

\* C10: a run that aborts has written no sentinel; a collection that an
\* aborted run left with some but not all of its seed records (no other run
\* being under way) keeps exactly those records whatever runs come later.
C10_PartialSeedIsNeverCompleted ==
    /\ \A p \in Procs : pc[p].at = "aborted" => ~run[p].wrote
    /\ \A c \in ContentCollections :
          hist.partial[c] > 0 =>
              Len(db[c]) = hist.partial[c] /\ Len(db[c]) < SeedSize(c)

\* A later run has returned and written the sentinel while the service
\* collection still holds the partial seed set.
C10_Witness ==
    /\ hist.partial["service"] > 0
    /\ Len(db["service"]) = hist.partial["service"]
    /\ SentinelCount(db) = 1
    /\ \E p \in Procs : pc[p].at = "done" /\ run[p].wrote /\ run[p].ins["service"] = 0

\* The request bodies the claim names: phone or full_name missing, or the
\* malformed e-mail.
FailsSchema(body) ==
    \/ "phone" \notin DOMAIN body
    \/ "full_name" \notin DOMAIN body
    \/ ("email" \in DOMAIN body /\ body["email"] = Some(NotAnEmail))

\* C5: a POST /api/appointment whose body fails schema validation is answered
\* with a 4xx status and leaves every collection as it was.
C5_InvalidBodyRejected ==
    [][(last'.op = "create_appointment" /\ FailsSchema(last'.req)) =>
          (last'.status \in 400..499 /\ db' = db)]_vars

C5_Witness ==
    /\ last.op = "create_appointment"
    /\ "phone" \notin DOMAIN last.req
    /\ last.status = 422
    /\ ExactlySeeded(db)

\* What a successful POST /api/appointment does, but for the stored fields.
AppointmentCreated(before, after, resp) ==
    /\ \A c \in Collections \ {"appointmentrequest"} : after[c] = before[c]
    /\ Len(after["appointmentrequest"]) = Len(before["appointmentrequest"]) + 1
    /\ IsPrefix(before["appointmentrequest"], after["appointmentrequest"])
    /\ resp.body.success = TRUE
    /\ Len(resp.body.id) > 0
    /\ {k \in 1..Len(after["appointmentrequest"]) :
            OidStr(after["appointmentrequest"][k]["_id"]) = resp.body.id}
         = {Len(after["appointmentrequest"])}
    /\ LET rec == after["appointmentrequest"][Len(after["appointmentrequest"])] IN
         "source" \notin DOMAIN resp.req => rec["source"] = Some("website")

NewAppointment(after) == after["appointmentrequest"][Len(after["appointmentrequest"])]

\* The stored address is the submitted one without surrounding blanks, with
\* the same local part and the domain in lower case.
NormalizedFrom(stored, given) ==
    /\ IsNone(given) => IsNone(stored)
    /\ ~IsNone(given) =>
          /\ ~IsNone(stored)
          /\ stored[1] = Strip(stored[1])
          /\ LocalPart(stored[1]) = LocalPart(Strip(given[1]))
          /\ DomainPart(stored[1]) = Lower(DomainPart(Strip(given[1])))

\* C6 as stated: a successful POST /api/appointment adds exactly one record
\* holding every submitted field unchanged (source "website" when omitted) and
\* returns success with a non-empty id string that identifies that record.
C6_StoresFieldsUnchanged ==
    [][(last'.op = "create_appointment" /\ last'.status = 200) =>
          /\ AppointmentCreated(db, db', last')
          /\ \A f \in DOMAIN last'.req : NewAppointment(db')[f] = last'.req[f]]_vars

\* C6 as amended: the same, the e-mail address being stored in its normalized
\* form (surrounding blanks stripped, domain in lower case) and every other
\* submitted field unchanged.
C6_StoresFieldsEmailNormalized ==
    [][(last'.op = "create_appointment" /\ last'.status = 200) =>
          /\ AppointmentCreated(db, db', last')
          /\ \A f \in DOMAIN last'.req \ {"email"} : NewAppointment(db')[f] = last'.req[f]
          /\ "email" \in DOMAIN last'.req =>
                NormalizedFrom(NewAppointment(db')["email"], last'.req["email"])]_vars

\* An appointment was stored whose e-mail differs from the submitted one and
\* whose source was defaulted.
C6_Witness ==
    /\ last.op = "create_appointment"
    /\ last.status = 200
    /\ "email" \in DOMAIN last.req
    /\ "source" \notin DOMAIN last.req
    /\ NewAppointment(db)["email"] # last.req["email"]
    /\ NewAppointment(db)["source"] = Some("website")
    /\ OidStr(NewAppointment(db)["_id"]) = last.body.id

\* C7: no step removes or changes a stored document (every collection only
\* grows at its end), and a step of any handler other than appointment
\* creation (that is, not a seed step either) leaves the database unchanged.
C7_OnlySeedAndAppointmentWrite ==
    [][/\ \A c \in Collections : IsPrefix(db[c], db'[c])
       /\ last'.op \notin {"seed", "create_appointment"} => db' = db]_vars

\* A listing was served from a database holding seeded content and a lead.
C7_Witness ==
    /\ last.op \in {"get_testimonials", "get_services", "get_posts", "test_database"}
    /\ last.status = 200
    /\ Len(db["appointmentrequest"]) > 0
    /\ ExactlySeeded(db)

\* The stored documents an equality filter on field f selects, in order.
StoredWhere(c, f, v) == SelectSeq(db[c], LAMBDA doc : doc[f] = v)

\* The response body lists exactly docs, each without its _id.
ListsWithoutId(body, docs) ==
    /\ Len(body) = Len(docs)
    /\ \A k \in 1..Len(docs) :
          /\ "_id" \notin DOMAIN body[k]
          /\ DOMAIN body[k] = DOMAIN docs[k] \ {"_id"}
          /\ \A f \in DOMAIN body[k] : body[k][f] = docs[k][f]

\* C8: GET /api/services with the category parameter given, whatever its
\* value, answers exactly the stored services of that category.
C8_CategoryFilterWheneverGiven ==
    (last.op = "get_services" /\ last.status = 200 /\ ~IsNone(last.req)) =>
        ListsWithoutId(last.body, StoredWhere("service", "category", last.req[1]))

\* C9: GET /api/testimonials answers exactly the stored testimonials whose
\* featured field equals the given value, all of them when the parameter is
\* omitted, and no answered record has an _id field.
C9_FeaturedFilter ==
    (last.op = "get_testimonials" /\ last.status = 200) =>
        IF IsNone(last.req)
        THEN ListsWithoutId(last.body, db["testimonial"])
        ELSE ListsWithoutId(last.body, StoredWhere("testimonial", "featured", last.req[1]))

\* featured=false answered some but not all of the stored testimonials.
C9_Witness ==
    /\ last.op = "get_testimonials"
    /\ last.status = 200
    /\ last.req = Some(FALSE)
    /\ Len(last.body) > 0
    /\ Len(last.body) < Len(db["testimonial"])
====
